---------------------------- MODULE Spec2Model ----------------------------
(***************************************************************************)
(* vmath::numbers : the Complex value type (complex.rs) and the real-scalar *)
(* bridge (real.rs).                                                        *)
(*                                                                          *)
(* Real is f64.  TLC has no floating point, so Real is modelled as a binary *)
(* IEEE-754 format of the same shape as f64 but with a narrower significand *)
(* and exponent range: signed zeros, subnormals, round-to-nearest-even,     *)
(* overflow to +-inf, underflow to +-0, and a single NaN.  f64 is the       *)
(* instance with 53 significand bits; every rule below is the IEEE-754 rule *)
(* f64 follows, only the widths differ.                                     *)
(*                                                                          *)
(* A finite value is sign * m * 2^-FracBits, m a natural number (its        *)
(* magnitude in units of the smallest subnormal).                           *)
(***************************************************************************)
EXTENDS Integers, Sequences, FiniteSets

\* ------------------------------------------------------------------------
\* The floating-point format
\* ------------------------------------------------------------------------

\* significand width in bits (53 for f64)
PrecBits == 4
\* the value 1.0 is 2^FracBits units of the smallest subnormal
FracBits == 2
\* number of binades above the subnormal/first-normal range
ExpSpan == 4
\* how many operations one run chains on the accumulator
MaxOps == 2

RECURSIVE Pow2(_)
Pow2(n) ==
    IF n = 0 THEN 1 ELSE 2 * Pow2(n - 1)

\* 1.0 in units
Unit ==
    Pow2(FracBits)

\* the largest finite magnitude (f64::MAX)
MaxMag ==
    (Pow2(PrecBits) - 1) * Pow2(ExpSpan)

\* spacing of the representable magnitudes around q (the ulp of q's binade)
RECURSIVE Ulp(_)
Ulp(q) ==
    IF q < Pow2(PrecBits) THEN 1 ELSE 2 * Ulp(q \div 2)

\* m is the magnitude of a finite value of the format
Representable(m) ==
    m <= MaxMag /\ m % Ulp(m) = 0

NaN ==
    [k |-> "nan", s |-> 0, m |-> 0]

Inf(s) ==
    [k |-> "inf", s |-> s, m |-> 0]

Fin(s, m) ==
    [k |-> "fin", s |-> s, m |-> m]

\* the literal 0.0
Zero ==
    Fin(0, 0)

\* the literal 1.0
One ==
    Fin(0, Unit)

\* the literal -1.0
MinusOne ==
    Fin(1, Unit)

\* the integer n as a float literal (n.0), n small enough to be representable
Lit(n) ==
    IF n < 0 THEN Fin(1, (0 - n) * Unit) ELSE Fin(0, n * Unit)

IsNaN(a) ==
    a.k = "nan"

IsInf(a) ==
    a.k = "inf"

IsFinite(a) ==
    a.k = "fin"

IsZero(a) ==
    a.k = "fin" /\ a.m = 0

Xor(s, t) ==
    (s + t) % 2

\* round the non-negative rational n/d (in units) to the nearest representable
\* magnitude, ties to the even significand; the result may exceed MaxMag
RoundMag(n, d) ==
    LET q == n \div d
        u == Ulp(q)
        lo == (q \div u) * u
        hi == lo + u
    IN  IF 2 * n < (lo + hi) * d THEN lo
        ELSE IF 2 * n > (lo + hi) * d THEN hi
        ELSE IF (lo \div u) % 2 = 0 THEN lo
        ELSE hi

\* the float of sign s nearest to n/d: overflow gives infinity
Rounded(s, n, d) ==
    LET r == RoundMag(n, d)
    IN  IF r > MaxMag THEN Inf(s) ELSE Fin(s, r)

\* f64 unary minus
FNeg(a) ==
    IF IsNaN(a) THEN NaN ELSE [a EXCEPT !.s = 1 - a.s]

\* the signed magnitude of a finite value, in units
Signed(a) ==
    IF a.s = 1 THEN 0 - a.m ELSE a.m

\* f64 +
FAdd(a, b) ==
    IF IsNaN(a) \/ IsNaN(b) THEN NaN
    ELSE IF IsInf(a) /\ IsInf(b) THEN (IF a.s = b.s THEN a ELSE NaN)
    ELSE IF IsInf(a) THEN a
    ELSE IF IsInf(b) THEN b
    ELSE LET v == Signed(a) + Signed(b)
         IN  IF v = 0 THEN (IF a.s = 1 /\ b.s = 1 THEN Fin(1, 0) ELSE Fin(0, 0))
             ELSE IF v < 0 THEN Rounded(1, 0 - v, 1)
             ELSE Rounded(0, v, 1)

\* f64 - (IEEE: a - b is a + (-b))
FSub(a, b) ==
    FAdd(a, FNeg(b))

\* f64 *
FMul(a, b) ==
    IF IsNaN(a) \/ IsNaN(b) THEN NaN
    ELSE IF (IsInf(a) /\ IsZero(b)) \/ (IsZero(a) /\ IsInf(b)) THEN NaN
    ELSE IF IsInf(a) \/ IsInf(b) THEN Inf(Xor(a.s, b.s))
    ELSE Rounded(Xor(a.s, b.s), a.m * b.m, Unit)

\* f64 /
FDiv(a, b) ==
    IF IsNaN(a) \/ IsNaN(b) THEN NaN
    ELSE IF IsInf(a) /\ IsInf(b) THEN NaN
    ELSE IF IsZero(a) /\ IsZero(b) THEN NaN
    ELSE IF IsInf(a) THEN Inf(Xor(a.s, b.s))
    ELSE IF IsInf(b) THEN Fin(Xor(a.s, b.s), 0)
    ELSE IF IsZero(b) THEN Inf(Xor(a.s, b.s))
    ELSE Rounded(Xor(a.s, b.s), a.m * Unit, b.m)

RECURSIVE ISqrtFrom(_, _)
ISqrtFrom(v, r) ==
    IF (r + 1) * (r + 1) > v THEN r ELSE ISqrtFrom(v, r + 1)

\* f64::sqrt, correctly rounded
FSqrt(a) ==
    IF IsNaN(a) THEN NaN
    ELSE IF IsZero(a) THEN a
    ELSE IF a.s = 1 THEN NaN
    ELSE IF IsInf(a) THEN a
    ELSE LET v == a.m * Unit
             q == ISqrtFrom(v, 0)
             u == Ulp(q)
             lo == (q \div u) * u
             hi == lo + u
         IN  IF 4 * v < (lo + hi) * (lo + hi) THEN Fin(0, lo)
             ELSE IF 4 * v > (lo + hi) * (lo + hi) THEN Fin(0, hi)
             ELSE IF (lo \div u) % 2 = 0 THEN Fin(0, lo)
             ELSE Fin(0, hi)

\* f64::atan: NaN for NaN, +-0 for +-0, +-pi/2 for +-inf; the arctangent of a
\* finite nonzero argument is kept symbolic (a value determined by the argument)
FAtan(a) ==
    IF IsNaN(a) THEN NaN
    ELSE IF IsZero(a) THEN a
    ELSE IF IsInf(a) THEN [k |-> "halfpi", s |-> a.s, m |-> 0]
    ELSE [k |-> "atan", s |-> a.s, m |-> a.m]

\* f64 == : NaN equals nothing, +0 equals -0
FEq(a, b) ==
    /\ ~IsNaN(a)
    /\ ~IsNaN(b)
    /\ \/ a = b
       \/ IsZero(a) /\ IsZero(b)

\* f64 >= 0.0
FNonNeg(a) ==
    /\ ~IsNaN(a)
    /\ \/ a.s = 0
       \/ IsZero(a)

\* ------------------------------------------------------------------------
\* complex.rs : the Complex value type
\* ------------------------------------------------------------------------

\* Complex::new
Complex_new(real, imaginary) ==
    [real |-> real, imaginary |-> imaginary]

\* pub const I
I ==
    [real |-> Zero, imaginary |-> One]

\* angle without the zero test: atan of the ratio whatever the real part
Angle_unguarded(self) ==
    FAtan(FDiv(self.imaginary, self.real))

\* Complex::angle
Complex_angle(self) ==
    IF FEq(self.real, Zero) THEN NaN
    ELSE FAtan(FDiv(self.imaginary, self.real))

\* conjugate that flips the real part as well
Conjugate_both(self) ==
    [real |-> FMul(self.real, MinusOne), imaginary |-> FMul(self.imaginary, MinusOne)]

\* Complex::conjugate
Complex_conjugate(self) ==
    [self EXCEPT !.imaginary = FMul(self.imaginary, MinusOne)]

\* Complex::norm_squared
Complex_norm_squared(self) ==
    FAdd(FMul(self.real, self.real), FMul(self.imaginary, self.imaginary))

\* norm that returns the real component
Norm_real_part(self) ==
    self.real

\* Complex::norm
Complex_norm(self) ==
    FSqrt(Complex_norm_squared(self))

\* impl From<Real> for Complex
Complex_from(real) ==
    [real |-> real, imaginary |-> Zero]

\* negation that leaves the imaginary part alone
Neg_real_only(self) ==
    [real |-> FNeg(self.real), imaginary |-> self.imaginary]

\* impl Neg for Complex
Complex_neg(self) ==
    [real |-> FNeg(self.real), imaginary |-> FNeg(self.imaginary)]

\* impl Add for Complex
Complex_add(self, rhs) ==
    [real |-> FAdd(self.real, rhs.real),
     imaginary |-> FAdd(self.imaginary, rhs.imaginary)]

\* impl Add<Real> for Complex
Complex_add_Real(self, rhs) ==
    [real |-> FAdd(self.real, rhs), imaginary |-> self.imaginary]

\* impl Sub for Complex
Complex_sub(self, rhs) ==
    Complex_add(self, Complex_neg(rhs))

\* impl Sub<Real> for Complex
Complex_sub_Real(self, rhs) ==
    Complex_add_Real(self, FNeg(rhs))

\* multiplication with rhs.imaginary in place of rhs.real in the last product
Mul_wrong_factor(self, rhs) ==
    [real |-> FSub(FMul(self.real, rhs.real), FMul(self.imaginary, rhs.imaginary)),
     imaginary |-> FAdd(FMul(self.real, rhs.imaginary), FMul(self.imaginary, rhs.imaginary))]

\* impl Mul for Complex
Complex_mul(self, rhs) ==
    [real |-> FSub(FMul(self.real, rhs.real), FMul(self.imaginary, rhs.imaginary)),
     imaginary |-> FAdd(FMul(self.real, rhs.imaginary), FMul(self.imaginary, rhs.real))]

\* impl Mul<Real> for Complex
Complex_mul_Real(self, rhs) ==
    [real |-> FMul(self.real, rhs), imaginary |-> FMul(self.imaginary, rhs)]

\* division with the imaginary numerator's terms exchanged
Div_swapped_numerator(self, rhs) ==
    [real |-> FDiv(FAdd(FMul(self.real, rhs.real), FMul(self.imaginary, rhs.imaginary)),
                   Complex_norm_squared(rhs)),
     imaginary |-> FDiv(FSub(FMul(self.real, rhs.imaginary), FMul(self.imaginary, rhs.real)),
                        Complex_norm_squared(rhs))]

\* impl Div for Complex
Complex_div(self, rhs) ==
    [real |-> FDiv(FAdd(FMul(self.real, rhs.real), FMul(self.imaginary, rhs.imaginary)),
                   Complex_norm_squared(rhs)),
     imaginary |-> FDiv(FSub(FMul(self.imaginary, rhs.real), FMul(self.real, rhs.imaginary)),
                        Complex_norm_squared(rhs))]

\* scalar division that returns the dividend when the divisor is zero
Div_Real_zero_checked(self, rhs) ==
    IF FEq(rhs, Zero) THEN self
    ELSE [real |-> FDiv(self.real, rhs), imaginary |-> FDiv(self.imaginary, rhs)]

\* impl Div<Real> for Complex
Complex_div_Real(self, rhs) ==
    [real |-> FDiv(self.real, rhs), imaginary |-> FDiv(self.imaginary, rhs)]

\* #[derive(PartialEq)] for Complex: field-wise f64 ==
Complex_eq(self, other) ==
    FEq(self.real, other.real) /\ FEq(self.imaginary, other.imaginary)

\* ------------------------------------------------------------------------
\* real.rs : the real scalar on the left
\* ------------------------------------------------------------------------

\* impl Add<Complex> for Real
Real_add_Complex(self, rhs) ==
    Complex_add_Real(rhs, self)

\* left subtraction with the operands the wrong way round
Real_sub_reversed(self, rhs) ==
    Complex_sub_Real(rhs, self)

\* left subtraction as the negated right subtraction
Real_sub_negated(self, rhs) ==
    Complex_neg(Complex_sub_Real(rhs, self))

\* impl Sub<Complex> for Real
Real_sub_Complex(self, rhs) ==
    Real_add_Complex(self, Complex_neg(rhs))

\* impl Mul<Complex> for Real
Real_mul_Complex(self, rhs) ==
    Complex_mul_Real(rhs, self)

\* left division as the right-hand scalar division
Real_div_transposed(self, rhs) ==
    Complex_div_Real(rhs, self)

\* impl Div<Complex> for Real
Real_div_Complex(self, rhs) ==
    Complex_div(Complex_from(self), rhs)

\* ------------------------------------------------------------------------
\* The state: operands, an accumulator the operations are chained on, the
\* result of the last query, and the operations applied so far
\* ------------------------------------------------------------------------

VARIABLES z, w, x, out, rout, hist

vars ==
    <<z, w, x, out, rout, hist>>

\* the largest finite value (f64::MAX) and the smallest subnormal
MaxFinite ==
    Fin(0, MaxMag)

MinSubnormal ==
    Fin(0, 1)

\* the queries return a Real and end a chain
Queries ==
    {"angle", "norm_squared", "norm"}

CanStep ==
    /\ Len(hist) < MaxOps
    /\ \A i \in 1..Len(hist) : hist[i] \notin Queries

\* the last operation applied
Last(h) ==
    h[Len(h)]

\* a fresh run: the accumulator holds z, nothing applied yet
Start(zs, ws, xs) ==
    /\ z \in zs
    /\ w \in ws
    /\ x \in xs
    /\ out = z
    /\ rout = Zero
    /\ hist = <<>>

Pairs(S) ==
    {Complex_new(a, b) : a \in S, b \in S}

Angle ==
    /\ CanStep
    /\ rout' = Complex_angle(out)
    /\ hist' = Append(hist, "angle")
    /\ UNCHANGED <<z, w, x, out>>

Conjugate ==
    /\ CanStep
    /\ out' = Complex_conjugate(out)
    /\ hist' = Append(hist, "conjugate")
    /\ UNCHANGED <<z, w, x, rout>>

NormSquared ==
    /\ CanStep
    /\ rout' = Complex_norm_squared(out)
    /\ hist' = Append(hist, "norm_squared")
    /\ UNCHANGED <<z, w, x, out>>

Norm ==
    /\ CanStep
    /\ rout' = Complex_norm(out)
    /\ hist' = Append(hist, "norm")
    /\ UNCHANGED <<z, w, x, out>>

Neg ==
    /\ CanStep
    /\ out' = Complex_neg(out)
    /\ hist' = Append(hist, "neg")
    /\ UNCHANGED <<z, w, x, rout>>

Add ==
    /\ CanStep
    /\ out' = Complex_add(out, w)
    /\ hist' = Append(hist, "add")
    /\ UNCHANGED <<z, w, x, rout>>

AddReal ==
    /\ CanStep
    /\ out' = Complex_add_Real(out, x)
    /\ hist' = Append(hist, "add_real")
    /\ UNCHANGED <<z, w, x, rout>>

Sub ==
    /\ CanStep
    /\ out' = Complex_sub(out, w)
    /\ hist' = Append(hist, "sub")
    /\ UNCHANGED <<z, w, x, rout>>

SubReal ==
    /\ CanStep
    /\ out' = Complex_sub_Real(out, x)
    /\ hist' = Append(hist, "sub_real")
    /\ UNCHANGED <<z, w, x, rout>>

Mul ==
    /\ CanStep
    /\ out' = Complex_mul(out, w)
    /\ hist' = Append(hist, "mul")
    /\ UNCHANGED <<z, w, x, rout>>

MulReal ==
    /\ CanStep
    /\ out' = Complex_mul_Real(out, x)
    /\ hist' = Append(hist, "mul_real")
    /\ UNCHANGED <<z, w, x, rout>>

Div ==
    /\ CanStep
    /\ out' = Complex_div(out, w)
    /\ hist' = Append(hist, "div")
    /\ UNCHANGED <<z, w, x, rout>>

DivReal ==
    /\ CanStep
    /\ out' = Complex_div_Real(out, x)
    /\ hist' = Append(hist, "div_real")
    /\ UNCHANGED <<z, w, x, rout>>

RealAdd ==
    /\ CanStep
    /\ out' = Real_add_Complex(x, out)
    /\ hist' = Append(hist, "real_add")
    /\ UNCHANGED <<z, w, x, rout>>

RealSub ==
    /\ CanStep
    /\ out' = Real_sub_Complex(x, out)
    /\ hist' = Append(hist, "real_sub")
    /\ UNCHANGED <<z, w, x, rout>>

RealMul ==
    /\ CanStep
    /\ out' = Real_mul_Complex(x, out)
    /\ hist' = Append(hist, "real_mul")
    /\ UNCHANGED <<z, w, x, rout>>

RealDiv ==
    /\ CanStep
    /\ out' = Real_div_Complex(x, out)
    /\ hist' = Append(hist, "real_div")
    /\ UNCHANGED <<z, w, x, rout>>

\* ---- complex (op) complex ----

ComplexInputs ==
    {Zero, FNeg(Zero), MinSubnormal, One, Lit(-2), Lit(3), MaxFinite,
     FNeg(MaxFinite)}

Init ==
    Start(Pairs(ComplexInputs), Pairs(ComplexInputs), {Zero})

Next ==
    \/ Add
    \/ Sub
    \/ Mul
    \/ Div

Spec ==
    Init /\ [][Next]_vars

\* ---- real (op) complex and complex (op) real ----

BridgeInputs ==
    {Zero, FNeg(Zero), MinSubnormal, Lit(3), Lit(6), FNeg(MaxFinite), Inf(0),
     NaN}

InitBridge ==
    /\ Start(Pairs(BridgeInputs), {I}, BridgeInputs)

NextBridge ==
    \/ AddReal
    \/ SubReal
    \/ MulReal
    \/ DivReal
    \/ RealAdd
    \/ RealSub
    \/ RealMul
    \/ RealDiv
    \/ Neg

SpecBridge ==
    InitBridge /\ [][NextBridge]_vars

\* ---- the queries ----

QueryInputs ==
    {Zero, FNeg(Zero), MinSubnormal, FNeg(MinSubnormal), One, MinusOne, Lit(3),
     Lit(4), MaxFinite, FNeg(MaxFinite), Inf(0), Inf(1), NaN}

InitQuery ==
    /\ Start(Pairs(QueryInputs), {I}, {Zero})

NextQuery ==
    \/ Conjugate
    \/ Neg
    \/ Angle
    \/ NormSquared
    \/ Norm

SpecQuery ==
    InitQuery /\ [][NextQuery]_vars

\* ---- division, zero divisors included ----

DividendInputs ==
    {Zero, FNeg(Zero), One, FNeg(MaxFinite), Inf(0), NaN}

DivisorInputs ==
    {Zero, FNeg(Zero), MinSubnormal, Lit(2)}

InitDiv ==
    /\ Start(Pairs(DividendInputs), Pairs(DivisorInputs), DivisorInputs)

NextDiv ==
    \/ Div
    \/ DivReal
    \/ RealDiv

SpecDiv ==
    InitDiv /\ [][NextDiv]_vars

\* every value in the state is a float of the format
IsReal(a) ==
    \/ a = NaN
    \/ a \in {Inf(0), Inf(1)}
    \/ a.k = "fin" /\ a.s \in {0, 1} /\ Representable(a.m)

IsComplex(c) ==
    IsReal(c.real) /\ IsReal(c.imaginary)

\* ------------------------------------------------------------------------
\* Properties
\* ------------------------------------------------------------------------

IsFiniteComplex(c) ==
    IsFinite(c.real) /\ IsFinite(c.imaginary)

HasNaN(c) ==
    IsNaN(c.real) \/ IsNaN(c.imaginary)

\* a division-by-zero sentinel: an infinity or NaN
IsSentinel(a) ==
    IsInf(a) \/ IsNaN(a)

\* x promoted to a Complex with a zero imaginary part
Promoted ==
    Complex_new(x, Zero)

\* every value the operations produce is a value of the types
TypeOK ==
    /\ IsComplex(z)
    /\ IsComplex(w)
    /\ IsReal(x)
    /\ IsComplex(out)
    /\ rout.k \in {"atan", "halfpi"} \/ IsReal(rout)
    /\ Len(hist) <= MaxOps

\* C1: the left-scalar division x / z is Complex::from(x) / z, the complex
\* division of the promoted scalar, not the right-hand scalar division z / x
\* the other way round; 6 / (0 + 3i) is (0, -2).
C1_LeftDivIsPromotedDiv ==
    hist = <<"real_div">> =>
        /\ out = Complex_div(Complex_from(x), z)
        /\ (x = Lit(6) /\ z = Complex_new(Zero, Lit(3))) =>
              /\ out = Complex_new(Zero, Lit(-2))
              /\ out # Complex_div_Real(z, x)

C1_Witness ==
    /\ hist = <<"real_div">>
    /\ x = Lit(6)
    /\ z = Complex_new(Zero, Lit(3))
    /\ out = Complex_new(Zero, Lit(-2))

\* C2 as stated: x - z is Complex::new(x, 0) - z in both components, the sign
\* of a zero component included.
C2_LeftSubIsPromotedSubExactly ==
    hist = <<"real_sub">> => out = Complex_sub(Promoted, z)

\* C2, amended: x - z has the real component of Complex::new(x, 0) - z, sign
\* of zero included, and the imaginary component -z.imaginary; so it is the
\* promoted difference exactly unless z.imaginary is +0 (then it is -0 where
\* the promoted difference has +0), and it is == to the promoted difference
\* whenever that has no NaN component.
C2_LeftSubMatchesUpToZeroSign ==
    hist = <<"real_sub">> =>
        /\ out.real = Complex_sub(Promoted, z).real
        /\ out.imaginary = FNeg(z.imaginary)
        /\ z.imaginary # Zero => out = Complex_sub(Promoted, z)
        /\ ~HasNaN(Complex_sub(Promoted, z)) => Complex_eq(out, Complex_sub(Promoted, z))

C2_Witness ==
    /\ hist = <<"real_sub">>
    /\ z.imaginary = Zero
    /\ out.imaginary = FNeg(Zero)
    /\ Complex_sub(Promoted, z).imaginary = Zero
    /\ Complex_eq(out, Complex_sub(Promoted, z))

\* C3: for finite x and z the scalar-left and scalar-right operators agree
\* under ==: x + z == z + x, x * z == z * x, and x - z == -(z - x).
C3_LeftRightAgree ==
    (IsFinite(x) /\ IsFiniteComplex(z)) =>
        /\ hist = <<"real_add">> => Complex_eq(out, Complex_add_Real(z, x))
        /\ hist = <<"add_real">> => Complex_eq(Real_add_Complex(x, z), out)
        /\ hist = <<"real_mul">> => Complex_eq(out, Complex_mul_Real(z, x))
        /\ hist = <<"mul_real">> => Complex_eq(Real_mul_Complex(x, z), out)
        /\ hist = <<"real_sub">> => Complex_eq(out, Complex_neg(Complex_sub_Real(z, x)))
        /\ hist = <<"sub_real", "neg">> => Complex_eq(Real_sub_Complex(x, z), out)

C3_Witness ==
    /\ hist = <<"sub_real", "neg">>
    /\ IsFiniteComplex(z)
    /\ x = Lit(6)
    /\ z.real = Lit(6)
    /\ out.real = FNeg(Zero)
    /\ Real_sub_Complex(x, z).real = Zero
    /\ Complex_eq(Real_sub_Complex(x, z), out)

\* C4: division never fails: dividing by a Complex whose norm_squared() is
\* zero, or by the scalar zero, still gives a Complex, and each of its
\* components is an infinity or NaN.
C4_DivByZeroGivesSentinels ==
    /\ IsComplex(out)
    /\ (hist # <<>> /\ Last(hist) = "div" /\ IsZero(Complex_norm_squared(w))) =>
          IsSentinel(out.real) /\ IsSentinel(out.imaginary)
    /\ (hist # <<>> /\ Last(hist) = "div_real" /\ IsZero(x)) =>
          IsSentinel(out.real) /\ IsSentinel(out.imaginary)

C4_Witness ==
    /\ hist = <<"div">>
    /\ w = Complex_new(Zero, Zero)
    /\ z = Complex_new(One, FNeg(MaxFinite))
    /\ out = Complex_new(NaN, NaN)

\* C5: angle() is NaN whenever the real component == 0.0 (either zero),
\* whatever the imaginary component; otherwise it is atan(imaginary / real).
C5_AngleNaNOnZeroReal ==
    (hist # <<>> /\ Last(hist) = "angle") =>
        /\ IsZero(out.real) => IsNaN(rout)
        /\ ~IsZero(out.real) => rout = FAtan(FDiv(out.imaginary, out.real))

C5_Witness ==
    /\ hist = <<"angle">>
    /\ out.real = FNeg(Zero)
    /\ out.imaginary = One
    /\ IsNaN(rout)

\* C6 as stated: for finite z and w, z + w == w + z and z * w == w * z.
C6_AddMulCommute ==
    (IsFiniteComplex(z) /\ IsFiniteComplex(w)) =>
        /\ hist = <<"add">> => Complex_eq(out, Complex_add(w, z))
        /\ hist = <<"mul">> => Complex_eq(out, Complex_mul(w, z))

\* C6, amended: for finite z and w, z + w == w + z; z * w and w * z have the
\* same components, and z * w == w * z whenever the product has no NaN
\* component (overflowing partial products can cancel to NaN, and NaN is not
\* == to itself).
C6_AddCommutesMulUnlessNaN ==
    (IsFiniteComplex(z) /\ IsFiniteComplex(w)) =>
        /\ hist = <<"add">> => Complex_eq(out, Complex_add(w, z))
        /\ hist = <<"mul">> => out = Complex_mul(w, z)
        /\ (hist = <<"mul">> /\ ~HasNaN(out)) => Complex_eq(out, Complex_mul(w, z))

C6_Witness ==
    /\ hist = <<"mul">>
    /\ IsFiniteComplex(z)
    /\ IsFiniteComplex(w)
    /\ IsNaN(out.real)
    /\ out = Complex_mul(w, z)

\* C7: conjugate() returns (real, -imaginary), and for finite z
\* conjugate(conjugate(z)) == z.
C7_ConjugateInvolution ==
    /\ hist = <<"conjugate">> => out = Complex_new(z.real, FNeg(z.imaginary))
    /\ (hist = <<"conjugate", "conjugate">> /\ IsFiniteComplex(z)) => Complex_eq(out, z)

C7_Witness ==
    /\ hist = <<"conjugate", "conjugate">>
    /\ z = Complex_new(One, Lit(3))
    /\ out = z

\* C8: for finite z, z - z == (0, 0), the difference being z + (-z).
C8_SubSelfIsZero ==
    hist = <<"sub">> =>
        /\ out = Complex_add(z, Complex_neg(w))
        /\ (w = z /\ IsFiniteComplex(z)) => Complex_eq(out, Complex_new(Zero, Zero))

C8_Witness ==
    /\ hist = <<"sub">>
    /\ w = z
    /\ z = Complex_new(Lit(3), Lit(-2))
    /\ out = Complex_new(Zero, Zero)

\* C9 as stated: norm() is sqrt(real*real + imaginary*imaginary); for finite
\* z it is non-negative, and zero if and only if both components are zero.
C9_NormZeroIffZero ==
    (hist = <<"norm">> /\ IsFiniteComplex(z)) =>
        /\ rout = FSqrt(FAdd(FMul(z.real, z.real), FMul(z.imaginary, z.imaginary)))
        /\ FNonNeg(rout)
        /\ IsZero(rout) <=> (IsZero(z.real) /\ IsZero(z.imaginary))

\* C9, amended: norm() is sqrt(real*real + imaginary*imaginary); for finite z
\* it is non-negative, it is zero when both components are zero, and when it
\* is zero both squares real*real and imaginary*imaginary are zero (a nonzero
\* component whose square underflows also gives a zero norm).
C9_NormZeroIffSquaresZero ==
    (hist = <<"norm">> /\ IsFiniteComplex(z)) =>
        /\ rout = FSqrt(FAdd(FMul(z.real, z.real), FMul(z.imaginary, z.imaginary)))
        /\ FNonNeg(rout)
        /\ (IsZero(z.real) /\ IsZero(z.imaginary)) => IsZero(rout)
        /\ IsZero(rout) <=> (IsZero(FMul(z.real, z.real)) /\ IsZero(FMul(z.imaginary, z.imaginary)))

C9_Witness ==
    /\ hist = <<"norm">>
    /\ z = Complex_new(MinSubnormal, Zero)
    /\ IsZero(rout)

\* the integer a finite integer-valued float holds
IntOf(a) ==
    IF a.s = 1 THEN 0 - (a.m \div Unit) ELSE a.m \div Unit

IsIntValued(a) ==
    IsFinite(a) /\ a.m % Unit = 0

\* the integer n is a value of the format (computing it neither rounds nor overflows)
ExactInt(n) ==
    IF n < 0 THEN Representable((0 - n) * Unit) ELSE Representable(n * Unit)

\* z and w hold integers, w is not zero, and every product and sum that
\* (z * w) / w computes is exact
ExactArithmetic ==
    /\ IsIntValued(z.real) /\ IsIntValued(z.imaginary)
    /\ IsIntValued(w.real) /\ IsIntValued(w.imaginary)
    /\ LET a == IntOf(z.real)
           b == IntOf(z.imaginary)
           c == IntOf(w.real)
           d == IntOf(w.imaginary)
           p == a * c - b * d
           q == a * d + b * c
       IN  /\ c * c + d * d # 0
           /\ \A n \in {a * c, b * d, p, a * d, b * c, q,
                        p * c, q * d, p * c + q * d, q * c, p * d, q * c - p * d,
                        c * c, d * d, c * c + d * d} : ExactInt(n)

\* C10: over exact arithmetic (integer components, nothing rounds or
\* overflows) and w with a nonzero norm_squared(), (z * w) / w == z: the
\* numerators Div computes are z's components times w.norm_squared().
C10_DivInvertsMul ==
    (hist = <<"mul", "div">> /\ ExactArithmetic) =>
        /\ Complex_eq(out, z)
        /\ LET zw == Complex_mul(z, w)
           IN  /\ FEq(FAdd(FMul(zw.real, w.real), FMul(zw.imaginary, w.imaginary)),
                      FMul(z.real, Complex_norm_squared(w)))
               /\ FEq(FSub(FMul(zw.imaginary, w.real), FMul(zw.real, w.imaginary)),
                      FMul(z.imaginary, Complex_norm_squared(w)))

C10_Witness ==
    /\ hist = <<"mul", "div">>
    /\ ExactArithmetic
    /\ z = Complex_new(One, Lit(-2))
    /\ w = Complex_new(Lit(3), Lit(-2))
    /\ out = z

=============================================================================
